---- MODULE Spec2Model ----
(***************************************************************************)
(* Model of src/src/prediction_model/pipeline/preprocessing.py: the        *)
(* Apache Beam cleaning pipeline run_pipeline and its row-level stages.    *)
(*                                                                         *)
(* Python strings are sequences of one-character strings, so that split,   *)
(* join, strip, lower, replace, float() and str() are computed the way     *)
(* Python computes them.  Python values are tagged records (Values below). *)
(***************************************************************************)
EXTENDS Integers, Sequences, FiniteSets, TLC

(***************************************************************************)
(* Bounds of the model.                                                    *)
(***************************************************************************)
\* The most data lines (lines after the header) an input file holds.
MaxLines == 2

(***************************************************************************)
(* Python str operations on character sequences.                           *)
(***************************************************************************)
Digits == <<"0", "1", "2", "3", "4", "5", "6", "7", "8", "9">>

IsDigit(c) == \E i \in 1..10 : Digits[i] = c

DigitVal(c) == (CHOOSE i \in 1..10 : Digits[i] = c) - 1

\* The characters str.strip() removes (the alphabet holds no tab or newline
\* inside a line).
IsSpace(c) == c = " "

Upper == <<"A", "B", "C", "D", "E", "F", "G", "H", "I", "J", "K", "L", "M",
           "N", "O", "P", "Q", "R", "S", "T", "U", "V", "W", "X", "Y", "Z">>

Lower == <<"a", "b", "c", "d", "e", "f", "g", "h", "i", "j", "k", "l", "m",
           "n", "o", "p", "q", "r", "s", "t", "u", "v", "w", "x", "y", "z">>

LowerChar(c) ==
    IF \E i \in 1..26 : Upper[i] = c
    THEN Lower[CHOOSE i \in 1..26 : Upper[i] = c]
    ELSE c

\* str.lower()
StrLower(s) == [i \in 1..Len(s) |-> LowerChar(s[i])]

RECURSIVE LStrip(_)
LStrip(s) == IF s # <<>> /\ IsSpace(Head(s)) THEN LStrip(Tail(s)) ELSE s

RECURSIVE RStrip(_)
RStrip(s) ==
    IF s # <<>> /\ IsSpace(s[Len(s)]) THEN RStrip(SubSeq(s, 1, Len(s) - 1)) ELSE s

\* str.strip()
Strip(s) == RStrip(LStrip(s))

\* str.replace(old, new) for a one-character old.
RECURSIVE StrReplace(_, _, _)
StrReplace(s, old, new) ==
    IF s = <<>> THEN <<>>
    ELSE IF Head(s) = old THEN new \o StrReplace(Tail(s), old, new)
    ELSE <<Head(s)>> \o StrReplace(Tail(s), old, new)

\* str.split(sep) for a one-character sep: always at least one field.
RECURSIVE StrSplit(_, _)
StrSplit(s, sep) ==
    IF \A i \in 1..Len(s) : s[i] # sep THEN <<s>>
    ELSE LET p == CHOOSE i \in 1..Len(s) :
                      s[i] = sep /\ \A j \in 1..(i - 1) : s[j] # sep
         IN  <<SubSeq(s, 1, p - 1)>> \o StrSplit(SubSeq(s, p + 1, Len(s)), sep)

\* sep.join(parts)
RECURSIVE StrJoin(_, _)
StrJoin(parts, sep) ==
    IF parts = <<>> THEN <<>>
    ELSE IF Len(parts) = 1 THEN parts[1]
    ELSE parts[1] \o <<sep>> \o StrJoin(Tail(parts), sep)

\* list.index(x) (zero-based), used where x is known to be in the list.
ListIndex(list, x) ==
    (CHOOSE i \in 1..Len(list) : list[i] = x /\ \A j \in 1..(i - 1) : list[j] # x) - 1

RECURSIVE Pow10(_)
Pow10(n) == IF n = 0 THEN 1 ELSE 10 * Pow10(n - 1)

RECURSIVE DigitsToNat(_)
DigitsToNat(s) ==
    IF s = <<>> THEN 0 ELSE 10 * DigitsToNat(SubSeq(s, 1, Len(s) - 1)) + DigitVal(s[Len(s)])

RECURSIVE NatToDigits(_)
NatToDigits(n) ==
    IF n < 10 THEN <<Digits[n + 1]>> ELSE NatToDigits(n \div 10) \o <<Digits[(n % 10) + 1]>>

AllDigits(s) == \A i \in 1..Len(s) : IsDigit(s[i])

(***************************************************************************)
(* Python values.  A float is finite (sg * num / 10^exp, with num >= 0 and *)
(* no trailing zero in the fraction), nan, or +-inf.  ValueError is what   *)
(* float() gives where Python raises ValueError.                           *)
(***************************************************************************)
Val(t, s, k, sg, num, exp) == [t |-> t, s |-> s, k |-> k, sg |-> sg, num |-> num, exp |-> exp]

VNone == Val("None", <<>>, "", 1, 0, 0)

VStr(s) == Val("str", s, "", 1, 0, 0)

VInt(n) == Val("int", <<>>, "", 1, n, 0)

VFloat(sg, num, exp) == Val("float", <<>>, "fin", sg, num, exp)

VNaN == Val("float", <<>>, "nan", 1, 0, 0)

VInf(sg) == Val("float", <<>>, "inf", sg, 0, 0)

ValueError == Val("ValueError", <<>>, "", 1, 0, 0)

IsStr(v) == v.t = "str"

\* isinstance(v, float) and math.isnan(v)
IsNaNFloat(v) == v.t = "float" /\ v.k = "nan"

\* The float n * 10^e10 (n >= 0), normalised.
RECURSIVE Normalise(_, _, _)
Normalise(sg, n, e10) ==
    IF n = 0 THEN VFloat(sg, 0, 0)
    ELSE IF e10 >= 0 THEN VFloat(sg, n * Pow10(e10), 0)
    ELSE IF n % 10 = 0 THEN Normalise(sg, n \div 10, e10 + 1)
    ELSE VFloat(sg, n, 0 - e10)

IsSign(c) == c = "+" \/ c = "-"

\* The exponent part of a decimal literal (after the e): [sign] digits+.
IsExponent(s) ==
    LET d == IF s # <<>> /\ IsSign(s[1]) THEN Tail(s) ELSE s
    IN  d # <<>> /\ AllDigits(d)

ExponentVal(s) ==
    IF IsSign(s[1])
    THEN (IF s[1] = "-" THEN -1 ELSE 1) * DigitsToNat(Tail(s))
    ELSE DigitsToNat(s)

\* The mantissa of a decimal literal: digits* [. digits*] with a digit somewhere.
IsMantissa(s) ==
    LET parts == StrSplit(s, ".")
    IN  /\ Len(parts) <= 2
        /\ \A i \in 1..Len(parts) : AllDigits(parts[i])
        /\ \E i \in 1..Len(parts) : parts[i] # <<>>

\* float(s) for a str s over the model's alphabet (which holds no underscore):
\* surrounding whitespace is stripped, then [sign] (nan | inf | infinity |
\* mantissa [e exponent]); anything else is a ValueError.
ParseFloat(s) ==
    LET b    == Strip(s)
        sgnd == b # <<>> /\ IsSign(b[1])
        sg   == IF sgnd /\ b[1] = "-" THEN -1 ELSE 1
        r    == IF sgnd THEN Tail(b) ELSE b
        lr   == StrLower(r)
        es   == {i \in 1..Len(lr) : lr[i] = "e"}
        p    == IF es = {} THEN Len(r) + 1 ELSE CHOOSE i \in es : \A j \in es : i <= j
        mant == SubSeq(r, 1, p - 1)
        expo == SubSeq(r, p + 1, Len(r))
    IN  IF lr = <<"n", "a", "n">> THEN VNaN
        ELSE IF lr = <<"i", "n", "f">> \/ lr = <<"i", "n", "f", "i", "n", "i", "t", "y">>
        THEN VInf(sg)
        ELSE IF IsMantissa(mant) /\ (es = {} \/ IsExponent(expo))
        THEN LET parts == StrSplit(mant, ".")
                 frac  == IF Len(parts) = 2 THEN parts[2] ELSE <<>>
                 e     == IF es = {} THEN 0 ELSE ExponentVal(expo)
             IN  Normalise(sg, DigitsToNat(parts[1] \o frac), e - Len(frac))
        ELSE ValueError

\* float(v): a float is itself, an int converts, a str is parsed.  None raises
\* TypeError; the callers below never pass it.
ToFloat(v) ==
    IF v.t = "float" THEN v
    ELSE IF v.t = "int" THEN VFloat(IF v.num < 0 THEN -1 ELSE 1, IF v.num < 0 THEN 0 - v.num ELSE v.num, 0)
    ELSE ParseFloat(v.s)

Zeros(n) == [i \in 1..n |-> "0"]

\* str(f) for a float f: Python's shortest repr.  Fixed notation while the
\* decimal exponent x of the leading digit has -4 <= x < 16 (the model's
\* numbers stay below 10^16), else d[.ddd]e-XX.
FloatToStr(v) ==
    LET D    == NatToDigits(v.num)
        x    == Len(D) - 1 - v.exp
        sign == IF v.sg = -1 THEN <<"-">> ELSE <<>>
    IN  IF v.k = "nan" THEN <<"n", "a", "n">>
        ELSE IF v.k = "inf" THEN sign \o <<"i", "n", "f">>
        ELSE IF v.num = 0 THEN sign \o <<"0", ".", "0">>
        ELSE IF x < -4
        THEN sign \o <<D[1]>> \o (IF Len(D) > 1 THEN <<".">> \o Tail(D) ELSE <<>>)
                  \o <<"e", "-">> \o (IF 0 - x < 10 THEN <<"0">> ELSE <<>>) \o NatToDigits(0 - x)
        ELSE IF v.exp = 0 THEN sign \o D \o <<".", "0">>
        ELSE IF Len(D) > v.exp
        THEN sign \o SubSeq(D, 1, Len(D) - v.exp) \o <<".">> \o SubSeq(D, Len(D) - v.exp + 1, Len(D))
        ELSE sign \o <<"0", ".">> \o Zeros(v.exp - Len(D)) \o D

\* str(v)
ToStr(v) ==
    IF v.t = "str" THEN v.s
    ELSE IF v.t = "float" THEN FloatToStr(v)
    ELSE IF v.t = "int"
    THEN (IF v.num < 0 THEN <<"-">> \o NatToDigits(0 - v.num) ELSE NatToDigits(v.num))
    ELSE <<"N", "o", "n", "e">>

(***************************************************************************)
(* String literals of the program, as character sequences.                 *)
(***************************************************************************)
\* the literal 'Contract'
K_Contract == <<"C", "o", "n", "t", "r", "a", "c", "t">>

\* the literal 'TotalCharges'
K_TotalCharges == <<"T", "o", "t", "a", "l", "C", "h", "a", "r", "g", "e", "s">>

\* the literal 'PhoneService'
K_PhoneService == <<"P", "h", "o", "n", "e", "S", "e", "r", "v", "i", "c", "e">>

\* the literal 'tenure'
K_tenure == <<"t", "e", "n", "u", "r", "e">>

\* the literal 'One year'
K_OneYear == <<"O", "n", "e", " ", "y", "e", "a", "r">>

\* the literal 'Two year'
K_TwoYear == <<"T", "w", "o", " ", "y", "e", "a", "r">>

\* the literal 'Month-to-month'
K_MonthToMonth == <<"M", "o", "n", "t", "h", "-", "t", "o", "-", "m", "o", "n", "t", "h">>

\* the leading column's name
K_customerID == <<"c", "u", "s", "t", "o", "m", "e", "r", "I", "D">>

\* a column the pipeline does not keep
K_gender == <<"g", "e", "n", "d", "e", "r">>

\* the literal 'yes'
S_yes == <<"y", "e", "s">>

\* the literal 'No'
S_No == <<"N", "o">>

(***************************************************************************)
(* prediction_model.config: the schema.  The input's columns after the     *)
(* leading column, the columns kept for the stages, and the output's       *)
(* columns.                                                                *)
(***************************************************************************)
LEADING_COLUMN == K_customerID

COLUMN_NAMES == <<K_customerID, K_gender, K_tenure, K_PhoneService, K_Contract, K_TotalCharges>>

FEATURES_AFTER_CONTRACT == <<K_tenure, K_PhoneService, K_Contract, K_TotalCharges>>

FEATURES == <<K_tenure, K_PhoneService, K_MonthToMonth, K_OneYear, K_TwoYear, K_TotalCharges>>

FEATURE_TO_MODIFY == K_TotalCharges

(***************************************************************************)
(* Python dicts: functions from a set of keys (character sequences).       *)
(***************************************************************************)
EmptyDict == [k \in {} |-> VNone]

HasKey(d, k) == k \in DOMAIN d

\* d.get(k, default)
DictGet(d, k, default) == IF HasKey(d, k) THEN d[k] ELSE default

\* d[k] = v
DictSet(d, k, v) == [x \in (DOMAIN d) \cup {k} |-> IF x = k THEN v ELSE d[x]]

\* d.update(other)
DictUpdate(d, other) ==
    [x \in (DOMAIN d) \cup (DOMAIN other) |-> IF x \in DOMAIN other THEN other[x] ELSE d[x]]

\* d.pop(k, None)
DictPop(d, k) == [x \in (DOMAIN d) \ {k} |-> d[x]]

SeqRange(s) == {s[i] : i \in 1..Len(s)}

(***************************************************************************)
(* What a stage does with one element: it yields an element, drops it, or  *)
(* raises.                                                                 *)
(***************************************************************************)
Yield(el) == [res |-> "yield", el |-> el, err |-> ""]

Drop == [res |-> "drop", el |-> EmptyDict, err |-> ""]

Raise(err) == [res |-> "raise", el |-> EmptyDict, err |-> err]

\* A slip in is_csv_empty: the header line is not set aside.
is_csv_empty_CountsHeader(lines) == \A i \in 1..Len(lines) : Strip(lines[i]) = <<>>

\* is_csv_empty(file_path): the first line is read and set aside; the file is
\* empty unless a later line is non-blank.
is_csv_empty(lines) == \A i \in 2..Len(lines) : Strip(lines[i]) = <<>>

\* filter_features(element): element[key] raises KeyError for a key the
\* element lacks.
filter_features(element) ==
    IF \A i \in 1..Len(FEATURES_AFTER_CONTRACT) : HasKey(element, FEATURES_AFTER_CONTRACT[i])
    THEN Yield([k \in SeqRange(FEATURES_AFTER_CONTRACT) |-> element[k]])
    ELSE Raise("KeyError")

\* find_leading_column_index(header, target_column)
find_leading_column_index(header, target_column) ==
    LET columns == StrSplit(header, ",")
    IN  IF target_column \in SeqRange(columns)
        THEN [ok |-> TRUE, index |-> ListIndex(columns, target_column)]
        ELSE [ok |-> FALSE, index |-> 0]

\* convert_dict_to_string(element)
convert_dict_to_string(element) ==
    StrJoin([i \in 1..Len(FEATURES) |-> ToStr(DictGet(element, FEATURES[i], VStr(<<>>)))], ",")

\* The 'To Dict' lambda: dict(zip(config.COLUMN_NAMES, x.split(',')[index:]))
ToDict(x, index) ==
    LET fields == StrSplit(x, ",")
        sliced == SubSeq(fields, index + 1, Len(fields))
        n      == IF Len(sliced) < Len(COLUMN_NAMES) THEN Len(sliced) ELSE Len(COLUMN_NAMES)
    IN  [k \in {COLUMN_NAMES[i] : i \in 1..n} |->
            VStr(sliced[CHOOSE i \in 1..n : COLUMN_NAMES[i] = k])]

\* FillTotalCharges.__init__: default_value = 2279.0
default_value == VFloat(1, 2279, 0)

\* FillTotalCharges.process(element)
FillTotalCharges(element) ==
    LET got == DictGet(element, FEATURE_TO_MODIFY, VStr(ToStr(default_value)))
        total_charges ==
            IF got.t = "None" \/ got = VStr(<<>>) \/ IsNaNFloat(got)
            THEN VStr(ToStr(default_value))
            ELSE got
    IN  IF ~IsStr(total_charges) THEN Raise("AttributeError")
        ELSE LET replaced == StrReplace(total_charges.s, " ", ToStr(default_value))
                 parsed   == ParseFloat(replaced)
             IN  Yield(DictSet(element, K_TotalCharges,
                               IF parsed = ValueError THEN default_value ELSE parsed))

\* FilterInvalidContract.process: valid_contracts
valid_contracts == {VStr(K_OneYear), VStr(K_TwoYear), VStr(K_MonthToMonth)}

\* FilterInvalidContract.process(element)
FilterInvalidContract(element) ==
    LET contract_value == DictGet(element, K_Contract, VNone)
    IN  IF contract_value \notin valid_contracts THEN Drop ELSE Yield(element)

\* One row of OHEContract.contract_mapping: the indicators with `one` set.
Indicators(one) ==
    [k \in {K_OneYear, K_TwoYear, K_MonthToMonth} |-> VInt(IF k = one THEN 1 ELSE 0)]

\* A slip in contract_mapping: the row of 'Two year' sets 'One year'.
contract_mapping_Swapped(value) ==
    IF value = VStr(K_OneYear) THEN Indicators(K_OneYear)
    ELSE IF value = VStr(K_TwoYear) THEN Indicators(K_OneYear)
    ELSE IF value = VStr(K_MonthToMonth) THEN Indicators(K_MonthToMonth)
    ELSE Indicators(<<>>)

\* OHEContract.__init__: contract_mapping.get(value, all-zero)
contract_mapping(value) ==
    IF value = VStr(K_OneYear) THEN Indicators(K_OneYear)
    ELSE IF value = VStr(K_TwoYear) THEN Indicators(K_TwoYear)
    ELSE IF value = VStr(K_MonthToMonth) THEN Indicators(K_MonthToMonth)
    ELSE Indicators(<<>>)

\* OHEContract.process(element)
OHEContract(element) ==
    IF ~HasKey(element, K_Contract) THEN Raise("KeyError")
    ELSE Yield(DictPop(DictUpdate(element, contract_mapping(element[K_Contract])), K_Contract))

\* A slip in FillPhoneService: the nan test is left out.
FillPhoneService_NoneOnly(element) ==
    LET phone_service_value == DictGet(element, K_PhoneService, VNone)
    IN  IF phone_service_value.t = "None"
        THEN Yield(DictSet(element, K_PhoneService, VStr(S_No)))
        ELSE Yield(element)

\* FillPhoneService.process(element)
FillPhoneService(element) ==
    LET phone_service_value == DictGet(element, K_PhoneService, VNone)
    IN  IF phone_service_value.t = "None" \/ IsNaNFloat(phone_service_value)
        THEN Yield(DictSet(element, K_PhoneService, VStr(S_No)))
        ELSE Yield(element)

\* FillTenureWithMean.__init__: the mean of the reference dataset's tenure
\* column (whole numbers), as the float with at most four decimals it equals.
Sum(s) == LET RECURSIVE Go(_)
              Go(i) == IF i = 0 THEN 0 ELSE s[i] + Go(i - 1)
          IN  Go(Len(s))

Mean(column) ==
    LET e == CHOOSE x \in 0..4 :
                 /\ (Sum(column) * Pow10(x)) % Len(column) = 0
                 /\ \A y \in 0..(x - 1) : (Sum(column) * Pow10(y)) % Len(column) # 0
    IN  Normalise(1, (Sum(column) * Pow10(e)) \div Len(column), 0 - e)

\* A slip in FillTenureWithMean: '' is filled like a missing value.
FillTenureWithMean_EmptyIsMissing(element, mean) ==
    LET tenure_value == DictGet(element, K_tenure, VNone)
    IN  IF tenure_value.t = "None" \/ IsNaNFloat(tenure_value) \/ tenure_value = VStr(<<>>)
        THEN Yield(DictSet(element, K_tenure, ToFloat(mean)))
        ELSE IF ToFloat(tenure_value) = ValueError THEN Raise("ValueError")
        ELSE Yield(DictSet(element, K_tenure, ToFloat(tenure_value)))

\* A slip in FillTenureWithMean: the conversion is guarded and a value that
\* does not parse is filled with the mean.
FillTenureWithMean_Guarded(element, mean) ==
    LET tenure_value == DictGet(element, K_tenure, VNone)
    IN  IF tenure_value.t = "None" \/ IsNaNFloat(tenure_value)
        THEN Yield(DictSet(element, K_tenure, ToFloat(mean)))
        ELSE IF tenure_value = VStr(<<>>)
        THEN Yield(DictSet(element, K_tenure, VFloat(1, 0, 0)))
        ELSE IF ToFloat(tenure_value) = ValueError
        THEN Yield(DictSet(element, K_tenure, ToFloat(mean)))
        ELSE Yield(DictSet(element, K_tenure, ToFloat(tenure_value)))

\* FillTenureWithMean.process(element), with self.tenure_mean = mean
FillTenureWithMean(element, mean) ==
    LET tenure_value == DictGet(element, K_tenure, VNone)
    IN  IF tenure_value.t = "None" \/ IsNaNFloat(tenure_value)
        THEN Yield(DictSet(element, K_tenure, ToFloat(mean)))
        ELSE IF tenure_value = VStr(<<>>)
        THEN Yield(DictSet(element, K_tenure, VFloat(1, 0, 0)))
        ELSE IF ToFloat(tenure_value) = ValueError THEN Raise("ValueError")
        ELSE Yield(DictSet(element, K_tenure, ToFloat(tenure_value)))

\* MapPhoneService.process(element)
MapPhoneService(element) ==
    IF ~HasKey(element, K_PhoneService) THEN Raise("KeyError")
    ELSE IF ~IsStr(element[K_PhoneService]) THEN Raise("AttributeError")
    ELSE Yield(DictSet(element, K_PhoneService,
                       VInt(IF StrLower(element[K_PhoneService].s) = S_yes THEN 1 ELSE 0)))

(***************************************************************************)
(* Inputs: the lines of the input file and the reference dataset.          *)
(***************************************************************************)
\* every handled field but Contract empty: c1,F,,,Month-to-month,
Row1 == <<"c", "1", ",", "F", ",", ",", ",", "M", "o", "n", "t", "h", "-", "t", "o", "-", "m", "o", "n", "t", "h", ",">>

\* a clean row: c2,F,12,Yes,One year,29.85
Row2 == <<"c", "2", ",", "F", ",", "1", "2", ",", "Y", "e", "s", ",", "O", "n", "e", " ", "y", "e", "a", "r", ",", "2", "9", ".", "8", "5">>

\* a Contract outside the domain: c4,F,3,No,Other,10
Row3 == <<"c", "4", ",", "F", ",", "3", ",", "N", "o", ",", "O", "t", "h", "e", "r", ",", "1", "0">>

\* a non-numeric tenure: c5,F,ab,No,One year,7
Row4 == <<"c", "5", ",", "F", ",", "a", "b", ",", "N", "o", ",", "O", "n", "e", " ", "y", "e", "a", "r", ",", "7">>

\* the text nan as TotalCharges: c6,M,1,no,Two year,nan
Row5 == <<"c", "6", ",", "M", ",", "1", ",", "n", "o", ",", "T", "w", "o", " ", "y", "e", "a", "r", ",", "n", "a", "n">>

\* a blank line: (nothing)
Row6 == <<>>

\* a line that ends before the Contract column: c8,F,2
Row7 == <<"c", "8", ",", "F", ",", "2">>

DataLines == {Row1, Row2, Row3, Row4, Row5, Row6, Row7}

\* Header lines: the canonical one; one with an unnamed index column before the
\* leading column (the data lines then carry an index cell too); one with other
\* columns in another order; one without the leading column.
HeaderKinds == {"canonical", "indexed", "other", "noleading"}

HeaderLine(kind) ==
    IF kind = "canonical" THEN StrJoin(COLUMN_NAMES, ",")
    ELSE IF kind = "indexed" THEN StrJoin(<<<<>>>> \o COLUMN_NAMES, ",")
    ELSE IF kind = "other" THEN StrJoin(<<K_customerID, K_TotalCharges, K_gender>>, ",")
    ELSE StrJoin(<<K_gender, K_tenure>>, ",")

IndexCell(kind) == IF kind = "indexed" THEN <<"0", ",">> ELSE <<>>

\* The input files: the empty file, and a header followed by up to MaxLines
\* data lines.
Files ==
    {<<>>} \cup
    UNION {
        { <<HeaderLine(kind)>> \o [i \in 1..n |-> IndexCell(kind) \o rows[i]] :
            rows \in [1..n -> DataLines] } :
        kind \in HeaderKinds, n \in 0..MaxLines }

\* The tenure columns of the reference datasets (means 32.0 and 27.5).
RefDatasets == {<<32>>, <<10, 45>>}

\* The reference dataset of the whole-pipeline runs (no line of a file makes a
\* stage read the mean: 'To Dict' gives every key a str).
PipelineRef == <<10, 45>>

(***************************************************************************)
(* The state of one run of run_pipeline.                                   *)
(***************************************************************************)
VARIABLES
    file,               \* the lines of input_file
    ref,                \* the tenure column of config.ORIG_DATA_PATH
    pc,                 \* where run_pipeline is
    customer_id_index,  \* the leading column's index in the header
    tenure_mean,        \* FillTenureWithMean.tenure_mean
    elems,              \* the elements read from the file, each with its place in the chain
    flat,               \* the 'Reattach Header' Flatten's output so far
    output,             \* the output file
    result,             \* what run_pipeline returned
    error               \* the error the run ended with

vars == <<file, ref, pc, customer_id_index, tenure_mean, elems, flat, output, result, error>>

\* The transforms applied to processed_data, in run_pipeline's order, and the
\* Flatten that follows.
Chain ==
    <<"To Dict", "Filter Features", "Filter Invalid Contracts", "OHE Contract",
      "Fill TotalCharges", "Fill PhoneService", "Fill Tenure", "Map PhoneService",
      "Convert Dict to String", "Reattach Header">>

StageIndex(stage) == CHOOSE i \in 1..Len(Chain) : Chain[i] = stage

\* header_str = ','.join(config.FEATURES)
header_str == StrJoin(FEATURES, ",")

NoError == [at |-> "", err |-> ""]

NoOutput == [written |-> FALSE, lines |-> <<>>]

\* An element as 'Read CSV' emits it: a line, about to enter the chain at
\* position `pos`.  hist records what each stage was given and did.
Element(pos, line, el) == [pos |-> pos, st |-> "live", line |-> line, el |-> el, hist |-> <<>>]

Init ==
    /\ file \in Files
    /\ ref = PipelineRef
    /\ pc = "start"
    /\ customer_id_index = 0
    /\ tenure_mean = VNone
    /\ elems = <<>>
    /\ flat = <<>>
    /\ output = NoOutput
    /\ result = "none"
    /\ error = NoError

\* run_pipeline, the pre-check: is_csv_empty returns True and run_pipeline
\* returns False, or the run goes on.
CheckEmpty ==
    /\ pc = "start"
    /\ IF is_csv_empty(file)
       THEN pc' = "done" /\ result' = "False"
       ELSE pc' = "header" /\ result' = result
    /\ UNCHANGED <<file, ref, customer_id_index, tenure_mean, elems, flat, output, error>>

\* run_pipeline: the header is read and the leading column located; ValueError
\* leaves run_pipeline when the header lacks it.
ReadHeader ==
    /\ pc = "header"
    /\ LET found == find_leading_column_index(Strip(file[1]), LEADING_COLUMN)
       IN  IF found.ok
           THEN /\ customer_id_index' = found.index
                /\ pc' = "build"
                /\ UNCHANGED <<result, error>>
           ELSE /\ pc' = "raised"
                /\ result' = "raised"
                /\ error' = [at |-> "find_leading_column_index", err |-> "ValueError"]
                /\ UNCHANGED customer_id_index
    /\ UNCHANGED <<file, ref, tenure_mean, elems, flat, output>>

\* run_pipeline: the pipeline is put together.  FillTenureWithMean() reads the
\* reference dataset; 'Read CSV' will emit every line after the first.
BuildPipeline ==
    /\ pc = "build"
    /\ tenure_mean' = Mean(ref)
    /\ elems' = [i \in 1..(Len(file) - 1) |-> Element(1, file[i + 1], EmptyDict)]
    /\ pc' = "running"
    /\ UNCHANGED <<file, ref, customer_id_index, flat, output, result, error>>

\* The stages of processed_data are fused: a worker takes any element not yet
\* begun and runs it through the chain before it takes the next.
MayStep(i, stage) ==
    /\ pc = "running"
    /\ i \in 1..Len(elems)
    /\ elems[i].st = "live"
    /\ Chain[elems[i].pos] = stage
    /\ \A j \in 1..Len(elems) : j # i => (elems[j].st # "live" \/ elems[j].pos = 1)

\* Element i after `stage` did `outcome` with it.
Stepped(e, stage, outcome) ==
    [pos  |-> IF outcome.res = "yield" THEN e.pos + 1 ELSE e.pos,
     st   |-> IF outcome.res = "yield" THEN "live"
              ELSE IF outcome.res = "drop" THEN "dropped" ELSE "raised",
     line |-> e.line,
     el   |-> IF outcome.res = "yield" THEN outcome.el ELSE e.el,
     hist |-> Append(e.hist, [stage |-> stage, inp |-> e.el, res |-> outcome.res])]

\* A stage processes element i; an error it raises ends the run (p.run() lets
\* it through, and nothing is written).
Apply(i, stage, outcome) ==
    /\ MayStep(i, stage)
    /\ elems' = [elems EXCEPT ![i] = Stepped(@, stage, outcome)]
    /\ IF outcome.res = "raise"
       THEN /\ pc' = "raised"
            /\ result' = "raised"
            /\ error' = [at |-> stage, err |-> outcome.err]
       ELSE UNCHANGED <<pc, result, error>>
    /\ UNCHANGED <<file, ref, customer_id_index, tenure_mean, flat, output>>

ToDictStep ==
    \E i \in 1..Len(elems) :
        /\ MayStep(i, "To Dict")
        /\ Apply(i, "To Dict", Yield(ToDict(elems[i].line, customer_id_index)))

FilterFeaturesStep ==
    \E i \in 1..Len(elems) :
        /\ MayStep(i, "Filter Features")
        /\ Apply(i, "Filter Features", filter_features(elems[i].el))

FilterInvalidContractStep ==
    \E i \in 1..Len(elems) :
        /\ MayStep(i, "Filter Invalid Contracts")
        /\ Apply(i, "Filter Invalid Contracts", FilterInvalidContract(elems[i].el))

OHEContractStep ==
    \E i \in 1..Len(elems) :
        /\ MayStep(i, "OHE Contract")
        /\ Apply(i, "OHE Contract", OHEContract(elems[i].el))

FillTotalChargesStep ==
    \E i \in 1..Len(elems) :
        /\ MayStep(i, "Fill TotalCharges")
        /\ Apply(i, "Fill TotalCharges", FillTotalCharges(elems[i].el))

FillPhoneServiceStep ==
    \E i \in 1..Len(elems) :
        /\ MayStep(i, "Fill PhoneService")
        /\ Apply(i, "Fill PhoneService", FillPhoneService(elems[i].el))

FillTenureStep ==
    \E i \in 1..Len(elems) :
        /\ MayStep(i, "Fill Tenure")
        /\ Apply(i, "Fill Tenure", FillTenureWithMean(elems[i].el, tenure_mean))

MapPhoneServiceStep ==
    \E i \in 1..Len(elems) :
        /\ MayStep(i, "Map PhoneService")
        /\ Apply(i, "Map PhoneService", MapPhoneService(elems[i].el))

\* 'Convert Dict to String': the element becomes a line.
ConvertStep ==
    \E i \in 1..Len(elems) :
        /\ MayStep(i, "Convert Dict to String")
        /\ elems' = [elems EXCEPT ![i] =
               [Stepped(@, "Convert Dict to String", Yield(@.el))
                   EXCEPT !.line = convert_dict_to_string(elems[i].el)]]
        /\ UNCHANGED <<file, ref, pc, customer_id_index, tenure_mean, flat, output, result, error>>

HeaderFlattened == \E k \in 1..Len(flat) : flat[k].src = 0

\* 'Reattach Header': Flatten merges its inputs in no promised order.  The
\* header collection's one element is merged at any moment of the run ...
FlattenHeader ==
    /\ pc = "running"
    /\ ~HeaderFlattened
    /\ flat' = Append(flat, [src |-> 0, text |-> header_str])
    /\ UNCHANGED <<file, ref, pc, customer_id_index, tenure_mean, elems, output, result, error>>

\* ... and a processed line when it leaves the chain.
FlattenData ==
    \E i \in 1..Len(elems) :
        /\ MayStep(i, "Reattach Header")
        /\ flat' = Append(flat, [src |-> i, text |-> elems[i].line])
        /\ elems' = [elems EXCEPT ![i].st = "flat"]
        /\ UNCHANGED <<file, ref, pc, customer_id_index, tenure_mean, output, result, error>>

\* 'Write Output', and run_pipeline returns True: every element has been
\* dropped or merged, and the merged lines are written as one file.
WriteOutput ==
    /\ pc = "running"
    /\ HeaderFlattened
    /\ \A i \in 1..Len(elems) : elems[i].st \in {"dropped", "flat"}
    /\ output' = [written |-> TRUE, lines |-> [k \in 1..Len(flat) |-> flat[k].text]]
    /\ pc' = "done"
    /\ result' = "True"
    /\ UNCHANGED <<file, ref, customer_id_index, tenure_mean, elems, flat, error>>

Next ==
    \/ CheckEmpty
    \/ ReadHeader
    \/ BuildPipeline
    \/ ToDictStep
    \/ FilterFeaturesStep
    \/ FilterInvalidContractStep
    \/ OHEContractStep
    \/ FillTotalChargesStep
    \/ FillPhoneServiceStep
    \/ FillTenureStep
    \/ MapPhoneServiceStep
    \/ ConvertStep
    \/ FlattenHeader
    \/ FlattenData
    \/ WriteOutput

Spec == Init /\ [][Next]_vars

(***************************************************************************)
(* The stages on records of any shape: one record enters the chain at any  *)
(* stage that takes a dict and runs on from there.  A key may be absent,   *)
(* None, a float (nan or not) or a str.                                    *)
(***************************************************************************)
Absent == Val("absent", <<>>, "", 1, 0, 0)

ContractValues ==
    {Absent, VNone, VStr(K_OneYear), VStr(K_TwoYear), VStr(K_MonthToMonth),
     VStr(<<"O", "t", "h", "e", "r">>)}

TotalChargesValues ==
    {Absent, VNone, VNaN, VFloat(1, 125, 1), VStr(<<>>), VStr(<<"1", " ", "2", "3", "4">>),
     VStr(<<"2", "9", ".", "8", "5">>), VStr(<<"a", "b", "c">>)}

PhoneServiceValues ==
    {Absent, VNone, VNaN, VFloat(1, 15, 1), VStr(<<"Y", "e", "s">>), VStr(<<"y", "E", "s">>),
     VStr(S_No), VStr(<<>>)}

TenureValues ==
    {Absent, VNone, VNaN, VFloat(1, 7, 0), VStr(<<>>), VStr(<<"1", "2">>),
     VStr(<<" ", "3", ".", "5", "0", " ">>), VStr(<<"a", "b">>)}

GenderValues == {Absent, VStr(<<"F">>)}

\* The dict with the given values, a key left out where its value is Absent.
Record(contract, total_charges, phone_service, tenure, gender) ==
    LET all == [k \in {K_Contract, K_TotalCharges, K_PhoneService, K_tenure, K_gender} |->
                   IF k = K_Contract THEN contract
                   ELSE IF k = K_TotalCharges THEN total_charges
                   ELSE IF k = K_PhoneService THEN phone_service
                   ELSE IF k = K_tenure THEN tenure
                   ELSE gender]
    IN  [k \in {x \in DOMAIN all : all[x] # Absent} |-> all[k]]

Records ==
    {Record(c, t, p, n, g) :
        c \in ContractValues, t \in TotalChargesValues, p \in PhoneServiceValues,
        n \in TenureValues, g \in GenderValues}

\* The stages that take a dict.
DictStages == {i \in 1..Len(Chain) : i >= 2 /\ i <= 9}

StageInit ==
    /\ file = <<>>
    /\ ref \in RefDatasets
    /\ pc = "running"
    /\ customer_id_index = 0
    /\ tenure_mean = Mean(ref)
    /\ \E pos \in DictStages, el \in Records : elems = <<Element(pos, <<>>, el)>>
    /\ flat = <<>>
    /\ output = NoOutput
    /\ result = "none"
    /\ error = NoError

StageNext ==
    \/ FilterFeaturesStep
    \/ FilterInvalidContractStep
    \/ OHEContractStep
    \/ FillTotalChargesStep
    \/ FillPhoneServiceStep
    \/ FillTenureStep
    \/ MapPhoneServiceStep
    \/ ConvertStep

StageSpec == StageInit /\ [][StageNext]_vars

(***************************************************************************)
(* Reading the run back: what a stage was given and what it emitted.       *)
(***************************************************************************)
\* The element as it left step k of element e (for a step that yielded).
After(e, k) == IF k < Len(e.hist) THEN e.hist[k + 1].inp ELSE e.el

\* P(inp, res, out) of every step some element has taken at `stage`.
EveryStep(stage, P(_, _, _)) ==
    \A i \in 1..Len(elems) : \A k \in 1..Len(elems[i].hist) :
        elems[i].hist[k].stage = stage =>
            P(elems[i].hist[k].inp, elems[i].hist[k].res, After(elems[i], k))

SomeStep(stage, P(_, _, _)) ==
    \E i \in 1..Len(elems) : \E k \in 1..Len(elems[i].hist) :
        /\ elems[i].hist[k].stage = stage
        /\ P(elems[i].hist[k].inp, elems[i].hist[k].res, After(elems[i], k))

\* The field of an output line under column `col`.
Field(text, col) == StrSplit(text, ",")[CHOOSE c \in 1..Len(FEATURES) : FEATURES[c] = col]

\* The data lines merged so far, and the input line each came from.
DataOut == {k \in 1..Len(flat) : flat[k].src # 0}

SourceLine(k) == file[flat[k].src + 1]

IsRow(line, row) == line = row \/ line = <<"0", ",">> \o row

Aborted(stage, err) ==
    /\ pc = "raised"
    /\ result = "raised"
    /\ error = [at |-> stage, err |-> err]
    /\ ~output.written

(***************************************************************************)
(* C1.  The row with Contract 'Month-to-month' and empty TotalCharges,     *)
(* PhoneService and tenure.                                                *)
(***************************************************************************)
\* C1 as claimed: the emitted row has Month-to-month = 1, TotalCharges = 2279.0,
\* PhoneService = 0 and tenure = the reference-dataset mean (27.5 here).
C1_AsClaimed ==
    \A k \in DataOut :
        IsRow(SourceLine(k), Row1) =>
            /\ Field(flat[k].text, K_MonthToMonth) = <<"1">>
            /\ Field(flat[k].text, K_TotalCharges) = <<"2", "2", "7", "9", ".", "0">>
            /\ Field(flat[k].text, K_PhoneService) = <<"0">>
            /\ Field(flat[k].text, K_tenure) = <<"2", "7", ".", "5">>

\* C1 amended: the emitted row has Month-to-month = 1 (and the other two
\* indicators 0), TotalCharges = 2279.0, PhoneService = 0 and tenure = 0.0: an
\* empty tenure field is the empty string, which FillTenureWithMean sets to 0.0.
C1_EmptyRow ==
    \A k \in DataOut :
        IsRow(SourceLine(k), Row1) =>
            /\ Field(flat[k].text, K_MonthToMonth) = <<"1">>
            /\ Field(flat[k].text, K_OneYear) = <<"0">>
            /\ Field(flat[k].text, K_TwoYear) = <<"0">>
            /\ Field(flat[k].text, K_TotalCharges) = <<"2", "2", "7", "9", ".", "0">>
            /\ Field(flat[k].text, K_PhoneService) = <<"0">>
            /\ Field(flat[k].text, K_tenure) = <<"0", ".", "0">>

\* C1's case: the run has written an output file that holds the row.
C1_Witness ==
    /\ output.written
    /\ \E k \in DataOut : IsRow(SourceLine(k), Row1)

(***************************************************************************)
(* C2.  The header of the output.                                          *)
(***************************************************************************)
C2_Header == <<"t", "e", "n", "u", "r", "e", ",", "P", "h", "o", "n", "e", "S", "e", "r", "v", "i", "c", "e", ",", "M", "o", "n", "t", "h", "-", "t", "o", "-", "m", "o", "n", "t", "h", ",", "O", "n", "e", " ", "y", "e", "a", "r", ",", "T", "w", "o", " ", "y", "e", "a", "r", ",", "T", "o", "t", "a", "l", "C", "h", "a", "r", "g", "e", "s">>

\* C2 as claimed: when run_pipeline returns True, the first line written is the
\* synthesized header, it appears once, and every data line comes after it.
C2_HeaderFirst ==
    result = "True" =>
        /\ output.written
        /\ output.lines[1] = C2_Header
        /\ \A k \in 2..Len(output.lines) : output.lines[k] # C2_Header

(***************************************************************************)
(* C3.  The pre-check.                                                     *)
(***************************************************************************)
\* The file is empty, or every line after the first holds nothing but spaces.
C3_HeaderOnly == \A i \in 2..Len(file) : \A c \in 1..Len(file[i]) : file[i][c] = " "

\* C3: for an empty or header-only file run_pipeline returns False, no stage
\* processes a record and no output is written; with a non-blank line after the
\* header the pre-check lets the run go on.
C3_PreCheck ==
    /\ (C3_HeaderOnly /\ pc # "start") =>
           /\ pc = "done"
           /\ result = "False"
           /\ elems = <<>>
           /\ flat = <<>>
           /\ ~output.written
    /\ ~C3_HeaderOnly =>
           /\ result # "False"
           /\ pc = "done" => result = "True"

\* C3's case: a header followed by blank lines only has been turned down.
C3_Witness ==
    /\ Len(file) > 1
    /\ C3_HeaderOnly
    /\ result = "False"

(***************************************************************************)
(* C4.  Records with an invalid Contract.                                  *)
(***************************************************************************)
\* C4 as claimed: a record whose Contract is outside the domain, or that has no
\* Contract at all, raises no error and is not in the output stream; a record
\* with a valid Contract leaves FilterInvalidContract unchanged.
C4_InvalidDropped ==
    \A i \in 1..Len(elems) :
        Len(elems[i].hist) >= 1 =>
            LET record == After(elems[i], 1)
            IN  IF DictGet(record, K_Contract, Absent) \notin valid_contracts
                THEN /\ elems[i].st # "raised"
                     /\ \A k \in DataOut : flat[k].src # i
                ELSE \A k \in 1..Len(elems[i].hist) :
                         elems[i].hist[k].stage = "Filter Invalid Contracts" =>
                             /\ elems[i].hist[k].res = "yield"
                             /\ After(elems[i], k) = elems[i].hist[k].inp

(***************************************************************************)
(* C5.  filter_features.                                                   *)
(***************************************************************************)
C5_AllowList == {K_tenure, K_PhoneService, K_Contract, K_TotalCharges}

C5_Filtered(inp, res, out) ==
    /\ res = "yield"
    /\ DOMAIN out = (DOMAIN inp) \cap C5_AllowList
    /\ \A k \in DOMAIN out : out[k] = inp[k]

\* C5 as claimed: filter_features returns the record restricted to the
\* allow-listed keys, and raises nothing when one of them is absent.
C5_AbsentOmitted == EveryStep("Filter Features", C5_Filtered)

(***************************************************************************)
(* C6.  FillTotalCharges.                                                  *)
(***************************************************************************)
C6_Filled(inp, res, out) ==
    LET v == DictGet(inp, K_TotalCharges, Absent)
    IN  /\ res = "yield"
        /\ HasKey(out, K_TotalCharges)
        /\ out[K_TotalCharges].t = "float"
        /\ v \in {Absent, VNone, VNaN, VStr(<<>>)} => out[K_TotalCharges] = VFloat(1, 2279, 0)
        /\ v = VStr(<<"1", " ", "2", "3", "4">>) => out[K_TotalCharges] = VFloat(1, 122790234, 4)

\* C6 as claimed: FillTotalCharges never raises, whatever TotalCharges is
\* (absent, None, '', nan, another float, a str), and writes a float back.
C6_NeverRaises == EveryStep("Fill TotalCharges", C6_Filled)

(***************************************************************************)
(* C7.  OHEContract.                                                       *)
(***************************************************************************)
C7_Encoded(inp, res, out) ==
    /\ HasKey(inp, K_Contract)
    /\ inp[K_Contract] \in {VStr(K_OneYear), VStr(K_TwoYear), VStr(K_MonthToMonth)}
    /\ res = "yield"
    /\ ~HasKey(out, K_Contract)
    /\ \A c \in {K_OneYear, K_TwoYear, K_MonthToMonth} :
           /\ HasKey(out, c)
           /\ out[c] = VInt(IF inp[K_Contract].s = c THEN 1 ELSE 0)

\* C7: every record OHEContract processes in a run has a valid Contract and
\* leaves with the indicator named after it 1, the other two 0 and no
\* 'Contract' key; every emitted data row has exactly one indicator 1.
C7_OneHot ==
    /\ EveryStep("OHE Contract", C7_Encoded)
    /\ \A k \in DataOut :
           /\ \A c \in {K_OneYear, K_TwoYear, K_MonthToMonth} :
                  Field(flat[k].text, c) \in {<<"0">>, <<"1">>}
           /\ Cardinality({c \in {K_OneYear, K_TwoYear, K_MonthToMonth} :
                              Field(flat[k].text, c) = <<"1">>}) = 1

\* C7's case: rows of two different contracts have been emitted.
C7_Witness ==
    /\ \E k \in DataOut : Field(flat[k].text, K_OneYear) = <<"1">>
    /\ \E k \in DataOut : Field(flat[k].text, K_TwoYear) = <<"1">>

(***************************************************************************)
(* C8.  FillTenureWithMean.                                                *)
(***************************************************************************)
C8_MeanOf(column) == IF column = <<32>> THEN VFloat(1, 32, 0) ELSE VFloat(1, 275, 1)

C8_Filled(inp, res, out) ==
    LET v == DictGet(inp, K_tenure, Absent)
    IN  IF v \in {Absent, VNone, VNaN}
        THEN res = "yield" /\ out = DictSet(inp, K_tenure, C8_MeanOf(ref))
        ELSE IF v = VStr(<<>>)
        THEN res = "yield" /\ out = DictSet(inp, K_tenure, VFloat(1, 0, 0))
        ELSE IF v = VFloat(1, 7, 0)
        THEN res = "yield" /\ out = inp
        ELSE IF v = VStr(<<"1", "2">>)
        THEN res = "yield" /\ out = DictSet(inp, K_tenure, VFloat(1, 12, 0))
        ELSE IF v = VStr(<<" ", "3", ".", "5", "0", " ">>)
        THEN res = "yield" /\ out = DictSet(inp, K_tenure, VFloat(1, 35, 1))
        ELSE res = "raise" /\ Aborted("Fill Tenure", "ValueError")

\* C8: the mean is the reference dataset's and stays it; tenure absent, None or
\* nan becomes the mean, '' becomes 0.0, anything else is coerced to float,
\* and a non-numeric str raises ValueError, which ends the run.
C8_TenureFilled ==
    /\ tenure_mean = C8_MeanOf(ref)
    /\ EveryStep("Fill Tenure", C8_Filled)

C8_NaNToMean(inp, res, out) ==
    /\ DictGet(inp, K_tenure, Absent) = VNaN
    /\ res = "yield"
    /\ out[K_tenure] = VFloat(1, 275, 1)

\* C8's case: a record with tenure nan has been given the mean.
C8_Witness == SomeStep("Fill Tenure", C8_NaNToMean)

(***************************************************************************)
(* C9.  The emitted records.                                               *)
(***************************************************************************)
C9_Missing == {<<>>, <<"N", "o", "n", "e">>, <<"n", "a", "n">>}

\* C9 as claimed: every emitted data line has exactly the FEATURES columns, and
\* none of the handled fields is missing, None, nan or empty in it.
C9_NothingMissing ==
    \A k \in DataOut :
        /\ Len(StrSplit(flat[k].text, ",")) = Len(FEATURES)
        /\ \A c \in {K_OneYear, K_TwoYear, K_MonthToMonth, K_TotalCharges, K_PhoneService, K_tenure} :
               Field(flat[k].text, c) \notin C9_Missing

(***************************************************************************)
(* C10.  FillPhoneService before MapPhoneService.                          *)
(***************************************************************************)
\* Where an element entered the chain.
C10_Entered(e) == IF e.hist = <<>> THEN e.pos ELSE StageIndex(e.hist[1].stage)

C10_Mapped(e, k) ==
    LET v   == DictGet(e.hist[k].inp, K_PhoneService, Absent)
        out == After(e, k)
    IN  /\ \E f \in 1..(k - 1) :
               /\ e.hist[f].stage = "Fill PhoneService"
               /\ DictGet(e.hist[f].inp, K_PhoneService, Absent) \in {Absent, VNone, VNaN}
                      => (v = VStr(S_No) /\ e.hist[k].res = "yield"
                            /\ out[K_PhoneService] = VInt(0))
        /\ v \notin {Absent, VNone, VNaN}
        /\ v \in {VStr(<<"Y", "e", "s">>), VStr(<<"y", "E", "s">>)} =>
               (e.hist[k].res = "yield" /\ out[K_PhoneService] = VInt(1))
        /\ v \in {VStr(S_No), VStr(<<>>)} =>
               (e.hist[k].res = "yield" /\ out[K_PhoneService] = VInt(0))

====
